---- MODULE Spec2Model ----
(***************************************************************************)
(* Model of onnxruntime-sys/build.rs: the build script that prepares the   *)
(* ONNX Runtime shared library and headers.  One behaviour is a sequence   *)
(* of build-script invocations that share one OUT_DIR (the on-disk cache   *)
(* is the only state that survives an invocation).                         *)
(*                                                                         *)
(* Paths are sequences of path components (PathBuf); strings are TLA+      *)
(* strings, built with \o exactly as the format! calls build them.         *)
(***************************************************************************)
EXTENDS Integers, Sequences, FiniteSets, TLC

(***************************************************************************)
(* Bounds of the model.                                                    *)
(***************************************************************************)
\* number of build-script invocations in one behaviour
MaxBuilds == 3
\* largest Android API level the NNAPI test is evaluated for
MaxApiLevel == 32
\* largest number of entries of a crafted zip archive
MaxEntries == 2
\* invocations of the build script when the target changes between them
MaxRetargets == 2

(***************************************************************************)
(* Program constants.                                                      *)
(***************************************************************************)
ORT_VERSION == "1.11.1"
ORT_RELEASE_BASE_URL == "https://github.com/microsoft/onnxruntime/releases/download"
ORT_ENV_STRATEGY == "ORT_STRATEGY"
ORT_ENV_SYSTEM_LIB_LOCATION == "ORT_LIB_LOCATION"
ORT_ENV_GPU == "ORT_USE_CUDA"
ORT_PREBUILT_EXTRACT_DIR == "onnxruntime"
ANDROID_API_LEVEL == 27

(***************************************************************************)
(* The environment.  Unset is the value of an environment variable that is *)
(* not present (env::var returns Err).                                     *)
(***************************************************************************)
Unset == "<unset>"

\* CARGO_CFG_TARGET_OS / CARGO_CFG_TARGET_ARCH: cargo scopes OUT_DIR to one
\* target, so they are the same in every invocation of one behaviour.
TargetOsValues == {"windows", "linux", "macos", "android", "freebsd", Unset}
TargetArchValues == {"x86", "x86_64", "arm", "aarch64", "riscv64", Unset}
\* ORT_STRATEGY, ORT_USE_CUDA, ORT_LIB_LOCATION, ANDROID_NNAPI,
\* ANDROID_SDK_HOME, ANDROID_NDK_HOME: read afresh in every invocation.
StrategyValues == {Unset, "download", "system", "compile", "bogus", "Download"}
GpuValues == {Unset, "1", "On", "0", "TRUE", "yes", "no"}
SystemLib == <<"opt", "onnxruntime">>
LibLocationValues == {Unset, "/opt/onnxruntime"}
NnapiValues == {Unset, "1", "0"}
SdkValues == {Unset, "/sdk"}
NdkValues == {Unset, "/ndk"}

\* OUT_DIR, always set by cargo
OUT_DIR == <<"out">>

(***************************************************************************)
(* String helpers (std).                                                   *)
(***************************************************************************)
UpperChars == "ABCDEFGHIJKLMNOPQRSTUVWXYZ"
LowerChars == "abcdefghijklmnopqrstuvwxyz"

CharAt(s, i) == SubSeq(s, i, i)

LowerChar(c) ==
    IF \E i \in 1..Len(UpperChars) : CharAt(UpperChars, i) = c
    THEN LET i == CHOOSE j \in 1..Len(UpperChars) : CharAt(UpperChars, j) = c
         IN  CharAt(LowerChars, i)
    ELSE c

RECURSIVE to_lowercase(_)
to_lowercase(s) ==
    IF s = "" THEN ""
    ELSE LowerChar(CharAt(s, 1)) \o to_lowercase(SubSeq(s, 2, Len(s)))

\* index of the last occurrence of character c in s, 0 if there is none
LastIndexOf(s, c) ==
    LET hits == {i \in 1..Len(s) : CharAt(s, i) = c}
    IN  IF hits = {} THEN 0 ELSE CHOOSE i \in hits : \A j \in hits : j <= i

\* Path::file_stem of a file name: the part before the last '.', or the
\* whole name when it has no '.' or only a leading one
file_stem(name) ==
    LET d == LastIndexOf(name, ".")
    IN  IF d <= 1 THEN name ELSE SubSeq(name, 1, d - 1)

\* Path::extension of a file name: the part after the last '.', Unset when
\* there is none
extension(name) ==
    LET d == LastIndexOf(name, ".")
    IN  IF d <= 1 THEN Unset ELSE SubSeq(name, d + 1, Len(name))

\* PathBuf::join with a single relative component
join(p, c) == Append(p, c)

parent(p) == SubSeq(p, 1, Len(p) - 1)

(***************************************************************************)
(* Results of fallible conversions: err = TRUE carries the message.        *)
(***************************************************************************)
Ok(v) == [err |-> FALSE, val |-> v]
Err(m) == [err |-> TRUE, val |-> m]

(***************************************************************************)
(* Architecture, Os, Accelerator, Triplet.  An enum value is the name of   *)
(* its variant (which is also its Debug rendering).                        *)
(***************************************************************************)
\* Architecture::from_str that takes any other name for x86_64
Architecture_from_str_lenient(s) ==
    LET l == to_lowercase(s)
    IN  CASE l = "x86" -> Ok("X86")
          [] l = "arm" -> Ok("Arm")
          [] l = "aarch64" -> Ok("Arm64")
          [] OTHER -> Ok("X86_64")

Architecture_from_str(s) ==
    LET l == to_lowercase(s)
    IN  CASE l = "x86" -> Ok("X86")
          [] l = "x86_64" -> Ok("X86_64")
          [] l = "arm" -> Ok("Arm")
          [] l = "aarch64" -> Ok("Arm64")
          [] OTHER -> Err("Unsupported architecture: " \o s)

Architecture_as_onnx_str(a) ==
    CASE a = "X86" -> "x86"
      [] a = "X86_64" -> "x64"
      [] a = "Arm" -> "arm"
      [] a = "Arm64" -> "arm64"

\* an extension rule that names the Linux archive tar.gz
Os_archive_extension_tar_gz(o) ==
    CASE o = "Windows" -> "zip"
      [] o = "Linux" -> "tar.gz"
      [] o = "MacOs" -> "tgz"

Os_archive_extension(o) ==
    CASE o = "Windows" -> "zip"
      [] o = "Linux" -> "tgz"
      [] o = "MacOs" -> "tgz"

Os_from_str(s) ==
    LET l == to_lowercase(s)
    IN  CASE l = "windows" -> Ok("Windows")
          [] l = "macos" -> Ok("MacOs")
          [] l = "linux" -> Ok("Linux")
          [] OTHER -> Err("Unsupported os: " \o s)

Os_as_onnx_str(o) ==
    CASE o = "Windows" -> "win"
      [] o = "Linux" -> "linux"
      [] o = "MacOs" -> "osx"

\* Accelerator::from_str that compares the value as given
Accelerator_from_str_case_sensitive(s) ==
    IF s \in {"1", "yes", "true", "on"} THEN Ok("Gpu") ELSE Ok("None")

Accelerator_from_str(s) ==
    LET l == to_lowercase(s)
    IN  IF l \in {"1", "yes", "true", "on"} THEN Ok("Gpu") ELSE Ok("None")

Accelerator_as_onnx_str(a) ==
    CASE a = "None" -> ""
      [] a = "Gpu" -> "gpu"

\* Triplet::as_onnx_str with Windows+Gpu formatted like Linux+Gpu
Triplet_as_onnx_str_regular(t) ==
    CASE t.accelerator = "None"
         /\ \/ (t.os = "Windows" /\ t.arch \in {"X86", "X86_64", "Arm", "Arm64"})
            \/ (t.os = "Linux" /\ t.arch = "X86_64")
            \/ (t.os = "MacOs" /\ t.arch = "X86_64")
           -> Ok(Os_as_onnx_str(t.os) \o "-" \o Architecture_as_onnx_str(t.arch))
      [] t.os \in {"Windows", "Linux"} /\ t.arch = "X86_64" /\ t.accelerator = "Gpu"
           -> Ok(Os_as_onnx_str(t.os) \o "-" \o Architecture_as_onnx_str(t.arch)
                 \o "-" \o Accelerator_as_onnx_str(t.accelerator))
      [] OTHER
           -> Err("Unsupported prebuilt triplet: " \o t.os \o ", " \o t.arch \o ", "
                  \o t.accelerator \o ". Please use " \o ORT_ENV_STRATEGY
                  \o "=system and " \o ORT_ENV_SYSTEM_LIB_LOCATION
                  \o "=/path/to/onnxruntime")

\* Triplet::as_onnx_str with a catch-all arm that formats {os}-{arch}
Triplet_as_onnx_str_default(t) ==
    CASE t.os = "Windows" /\ t.arch = "X86_64" /\ t.accelerator = "Gpu"
           -> Ok(Os_as_onnx_str(t.os) \o "-" \o Accelerator_as_onnx_str(t.accelerator)
                 \o "-" \o Architecture_as_onnx_str(t.arch))
      [] t.os = "Linux" /\ t.arch = "X86_64" /\ t.accelerator = "Gpu"
           -> Ok(Os_as_onnx_str(t.os) \o "-" \o Architecture_as_onnx_str(t.arch)
                 \o "-" \o Accelerator_as_onnx_str(t.accelerator))
      [] OTHER
           -> Ok(Os_as_onnx_str(t.os) \o "-" \o Architecture_as_onnx_str(t.arch))

\* Triplet::as_onnx_str: the token, or the panic of the catch-all arm
Triplet_as_onnx_str(t) ==
    CASE t.accelerator = "None"
         /\ \/ (t.os = "Windows" /\ t.arch \in {"X86", "X86_64", "Arm", "Arm64"})
            \/ (t.os = "Linux" /\ t.arch = "X86_64")
            \/ (t.os = "MacOs" /\ t.arch = "X86_64")
           -> Ok(Os_as_onnx_str(t.os) \o "-" \o Architecture_as_onnx_str(t.arch))
      [] t.os = "Windows" /\ t.arch = "X86_64" /\ t.accelerator = "Gpu"
           -> Ok(Os_as_onnx_str(t.os) \o "-" \o Accelerator_as_onnx_str(t.accelerator)
                 \o "-" \o Architecture_as_onnx_str(t.arch))
      [] t.os = "Linux" /\ t.arch = "X86_64" /\ t.accelerator = "Gpu"
           -> Ok(Os_as_onnx_str(t.os) \o "-" \o Architecture_as_onnx_str(t.arch)
                 \o "-" \o Accelerator_as_onnx_str(t.accelerator))
      [] OTHER
           -> Err("Unsupported prebuilt triplet: " \o t.os \o ", " \o t.arch \o ", "
                  \o t.accelerator \o ". Please use " \o ORT_ENV_STRATEGY
                  \o "=system and " \o ORT_ENV_SYSTEM_LIB_LOCATION
                  \o "=/path/to/onnxruntime")

\* the two format! calls of prebuilt_archive_url, for a resolved token
prebuilt_archive_name(token, os) ==
    "onnxruntime-" \o token \o "-" \o ORT_VERSION \o "." \o Os_archive_extension(os)

\* the URL without the 'v' of the release tag
prebuilt_url_of_untagged(archive) ==
    ORT_RELEASE_BASE_URL \o "/" \o ORT_VERSION \o "/" \o archive

prebuilt_url_of(archive) ==
    ORT_RELEASE_BASE_URL \o "/v" \o ORT_VERSION \o "/" \o archive

(***************************************************************************)
(* The file system.  fs maps each existing path to its entry; a file's     *)
(* data names the bytes it holds.                                          *)
(***************************************************************************)
Dir == [kind |-> "dir", data |-> ""]
File(d) == [kind |-> "file", data |-> d]
\* the data of a file whose write stopped part-way, or of a short body
Truncated == "<truncated>"

\* components of a '/'-separated name, empty components included
RECURSIVE SplitFrom(_, _, _, _)
SplitFrom(s, i, cur, acc) ==
    IF i > Len(s) THEN Append(acc, cur)
    ELSE IF CharAt(s, i) = "/" THEN SplitFrom(s, i + 1, "", Append(acc, cur))
    ELSE SplitFrom(s, i + 1, cur \o CharAt(s, i), acc)

components(s) == SplitFrom(s, 1, "", <<>>)

\* the Normal components of a name: no root, no empty, "." or ".." component
NormalComponents(s) ==
    SelectSeq(components(s), LAMBDA c : c \notin {"", ".", ".."})

\* PathBuf::from of an absolute path string
PathBuf_from(s) == NormalComponents(s)

\* a name conversion that drops the root and "." but keeps ".."
sanitized_name_keeps_parent_dir(name) ==
    SelectSeq(components(name), LAMBDA c : c \notin {"", "."})

\* ZipFile::sanitized_name: the Normal components of the entry's name
sanitized_name(name) == NormalComponents(name)

ends_with_slash(name) == Len(name) > 0 /\ CharAt(name, Len(name)) = "/"

exists(f, p) == p \in DOMAIN f

prefixes(p) == {SubSeq(p, 1, i) : i \in 1..Len(p)}

\* fs::create_dir_all
create_dir_all(f, p) ==
    [q \in DOMAIN f \cup prefixes(p) |-> IF q \in DOMAIN f THEN f[q] ELSE Dir]

\* File::create followed by writing d (fs::write, io::copy, fs::copy)
write_file(f, p, d) ==
    [q \in DOMAIN f \cup {p} |-> IF q = p THEN File(d) ELSE f[q]]

\* create_dir_all of p's parent and File::create of p can succeed: no file
\* stands where a directory is needed and no directory where the file goes
creatable(f, p) ==
    /\ Len(p) > 0
    /\ \A q \in prefixes(parent(p)) : exists(f, q) => f[q].kind = "dir"
    /\ exists(f, p) => f[p].kind = "file"

\* a directory that exists and holds at least one entry
non_empty_dir(f, p) ==
    /\ exists(f, p)
    /\ f[p].kind = "dir"
    /\ \E q \in DOMAIN f : Len(q) = Len(p) + 1 /\ parent(q) = p

(***************************************************************************)
(* The upstream release archive served for an archive file name: a         *)
(* directory named after the archive stem holding include/ and lib/.       *)
(***************************************************************************)
\* pieces of s between occurrences of the character sep
RECURSIVE SplitOn(_, _, _, _, _)
SplitOn(s, sep, i, cur, acc) ==
    IF i > Len(s) THEN Append(acc, cur)
    ELSE IF CharAt(s, i) = sep THEN SplitOn(s, sep, i + 1, "", Append(acc, cur))
    ELSE SplitOn(s, sep, i + 1, cur \o CharAt(s, i), acc)

\* the bytes of a zip file that is not the upstream one: its central
\* directory, the entry names in order
RECURSIVE CraftedZip(_)
CraftedZip(names) ==
    IF names = << >> THEN "PK" ELSE CraftedZip(SubSeq(names, 1, Len(names) - 1))
                                    \o "|" \o names[Len(names)]

is_crafted(data) == Len(data) >= 2 /\ SubSeq(data, 1, 2) = "PK"

ArchiveEntries(archive) ==
    IF is_crafted(archive) THEN Tail(SplitOn(archive, "|", 1, "", << >>))
    ELSE
    LET stem == file_stem(archive)
        lib == IF extension(archive) = "zip" THEN "onnxruntime.dll"
               ELSE "libonnxruntime.so"
    IN  << stem \o "/",
           stem \o "/include/onnxruntime_c_api.h",
           stem \o "/lib/" \o lib >>

\* the data of the file unpacked from entry e of an archive
EntryData(archive, e) == archive \o "!" \o e

(***************************************************************************)
(* State.                                                                  *)
(***************************************************************************)
VARIABLES
    targetOs,     \* CARGO_CFG_TARGET_OS
    targetArch,   \* CARGO_CFG_TARGET_ARCH
    fs,           \* the file system (survives invocations)
    git,          \* the clone under OUT_DIR/onnxruntime-git (survives invocations)
    builds,       \* invocations started so far
    pc,           \* position of the running invocation
    env,          \* the environment variables the invocation has read
    triplet,      \* the Triplet of prebuilt_archive_url
    prebuilt,     \* (prebuilt_archive, prebuilt_url)
    k,            \* index of the next archive entry / copy step
    resp,         \* the body read from the remote Android prebuilt
    cmd,          \* arguments of the spawned cross-build command
    result,       \* the PathBuf returned by prepare_libort_dir
    panic,        \* the message of the panic that aborted the invocation
    log,          \* effects of the invocation, in order
    atStart,      \* the file system when the invocation started
    returned      \* (archive, root) of the earlier invocations that returned

vars == << targetOs, targetArch, fs, git, builds, pc, env, triplet, prebuilt,
           k, resp, cmd, result, panic, log, atStart, returned >>

NotRead == "<not read>"
NoEnv == [strategy |-> NotRead, gpu |-> NotRead, libloc |-> NotRead,
          nnapi |-> NotRead, sdk |-> NotRead, ndk |-> NotRead]
NoTriplet == [os |-> "", arch |-> "", accelerator |-> ""]
NoPrebuilt == [archive |-> "", url |-> ""]
NoGit == [head |-> "", tree |-> "", resolved |-> ""]
NoPath == <<>>

\* an installed copy of the library, where ORT_LIB_LOCATION points
InitFs ==
    LET f0 == create_dir_all(<< >> :> Dir, OUT_DIR)
        f1 == create_dir_all(f0, join(SystemLib, "lib"))
        f2 == create_dir_all(f1, join(SystemLib, "include"))
        f3 == write_file(f2, join(join(SystemLib, "lib"), "libonnxruntime.so"), "system")
    IN  write_file(f3, join(join(SystemLib, "include"), "onnxruntime_c_api.h"), "system")

Init ==
    /\ targetOs \in TargetOsValues
    /\ targetArch \in TargetArchValues
    /\ fs = InitFs
    /\ git = NoGit
    /\ builds = 0
    /\ pc = "idle"
    /\ env = NoEnv
    /\ triplet = NoTriplet
    /\ prebuilt = NoPrebuilt
    /\ k = 0
    /\ resp = ""
    /\ cmd = <<>>
    /\ result = NoPath
    /\ panic = ""
    /\ log = <<>>
    /\ atStart = InitFs
    /\ returned = {}

\* the process ends with a panic
Abort(msg) ==
    /\ pc' = "aborted"
    /\ panic' = msg

\* prepare_libort_dir returns root to main
Return(root) ==
    /\ pc' = "done"
    /\ result' = root

(***************************************************************************)
(* main: a new invocation of the build script in the same OUT_DIR.         *)
(***************************************************************************)
StartBuild ==
    /\ pc \in {"idle", "done", "aborted"}
    /\ builds < MaxBuilds
    /\ builds' = builds + 1
    /\ pc' = "prepare_libort_dir"
    /\ env' = NoEnv
    /\ triplet' = NoTriplet
    /\ prebuilt' = NoPrebuilt
    /\ k' = 0
    /\ resp' = ""
    /\ cmd' = <<>>
    /\ result' = NoPath
    /\ panic' = ""
    /\ log' = <<>>
    /\ atStart' = fs
    /\ returned' = IF pc = "done"
                   THEN returned \cup {<< prebuilt.archive, result >>}
                   ELSE returned
    /\ UNCHANGED << targetOs, targetArch, fs, git >>

(***************************************************************************)
(* prepare_libort_dir: strategy selection.                                 *)
(***************************************************************************)
\* prepare_libort_dir with its arms redirected: the position taken for an
\* android target when the strategy is absent, for system without
\* ORT_LIB_LOCATION and for compile ("" keeps the panic of the arm)
prepare_libort_dir_redirected(android_default, system_missing, compile_arm) ==
    /\ pc = "prepare_libort_dir"
    /\ \E s \in StrategyValues :
         /\ IF targetOs = Unset
            THEN /\ Abort("Failed to get TARGET_OS: NotPresent")
                 /\ env' = [env EXCEPT !.strategy = s]
                 /\ UNCHANGED << result, log >>
            ELSE /\ log' = Append(log, "strategy_selected")
                 /\ CASE s = Unset ->
                           /\ pc' = IF targetOs = "android" THEN android_default
                                    ELSE "prebuilt_archive_url"
                           /\ env' = [env EXCEPT !.strategy = s]
                           /\ UNCHANGED << result, panic >>
                      [] s = "download" ->
                           /\ pc' = "prebuilt_archive_url"
                           /\ env' = [env EXCEPT !.strategy = s]
                           /\ UNCHANGED << result, panic >>
                      [] s = "system" ->
                           \E p \in LibLocationValues :
                             /\ env' = [env EXCEPT !.strategy = s, !.libloc = p]
                             /\ IF p = Unset
                                THEN IF system_missing = ""
                                     THEN /\ Abort("Could not get value of environment variable \""
                                                   \o ORT_ENV_SYSTEM_LIB_LOCATION
                                                   \o "\": NotPresent")
                                          /\ UNCHANGED result
                                     ELSE /\ pc' = system_missing
                                          /\ UNCHANGED << result, panic >>
                                ELSE /\ Return(PathBuf_from(p))
                                     /\ UNCHANGED panic
                      [] s = "compile" ->
                           /\ env' = [env EXCEPT !.strategy = s]
                           /\ UNCHANGED result
                           /\ IF compile_arm = ""
                              THEN Abort("not implemented")
                              ELSE /\ pc' = compile_arm
                                   /\ UNCHANGED panic
                      [] OTHER ->
                           /\ Abort("Unknown value for \"" \o ORT_ENV_STRATEGY \o "\"")
                           /\ env' = [env EXCEPT !.strategy = s]
                           /\ UNCHANGED result
    /\ UNCHANGED << targetOs, targetArch, returned, fs, git, builds, triplet, prebuilt,
                    k, resp, cmd, atStart >>

\* prepare_libort_dir that takes the Download path for every target
prepare_libort_dir_no_android ==
    prepare_libort_dir_redirected("prebuilt_archive_url", "", "")

\* prepare_libort_dir that downloads when ORT_LIB_LOCATION is absent
prepare_libort_dir_system_falls_back ==
    prepare_libort_dir_redirected("android_setup", "prebuilt_archive_url", "")

\* prepare_libort_dir that downloads when asked to compile
prepare_libort_dir_compile_falls_back ==
    prepare_libort_dir_redirected("android_setup", "", "prebuilt_archive_url")

prepare_libort_dir ==
    /\ pc = "prepare_libort_dir"
    /\ \E s \in StrategyValues :
         /\ IF targetOs = Unset
            THEN /\ Abort("Failed to get TARGET_OS: NotPresent")
                 /\ env' = [env EXCEPT !.strategy = s]
                 /\ UNCHANGED << result, log >>
            ELSE /\ log' = Append(log, "strategy_selected")
                 /\ CASE s = Unset ->
                           /\ pc' = IF targetOs = "android" THEN "android_setup"
                                    ELSE "prebuilt_archive_url"
                           /\ env' = [env EXCEPT !.strategy = s]
                           /\ UNCHANGED << result, panic >>
                      [] s = "download" ->
                           /\ pc' = "prebuilt_archive_url"
                           /\ env' = [env EXCEPT !.strategy = s]
                           /\ UNCHANGED << result, panic >>
                      [] s = "system" ->
                           \E p \in LibLocationValues :
                             /\ env' = [env EXCEPT !.strategy = s, !.libloc = p]
                             /\ IF p = Unset
                                THEN /\ Abort("Could not get value of environment variable \""
                                              \o ORT_ENV_SYSTEM_LIB_LOCATION \o "\": NotPresent")
                                     /\ UNCHANGED result
                                ELSE /\ Return(PathBuf_from(p))
                                     /\ UNCHANGED panic
                      [] s = "compile" ->
                           /\ Abort("not implemented")
                           /\ env' = [env EXCEPT !.strategy = s]
                           /\ UNCHANGED result
                      [] OTHER ->
                           /\ Abort("Unknown value for \"" \o ORT_ENV_STRATEGY \o "\"")
                           /\ env' = [env EXCEPT !.strategy = s]
                           /\ UNCHANGED result
    /\ UNCHANGED << targetOs, targetArch, returned, fs, git, builds, triplet, prebuilt,
                    k, resp, cmd, atStart >>

(***************************************************************************)
(* The Download path: prepare_libort_dir_prebuilt.                         *)
(***************************************************************************)
extract_dir == join(OUT_DIR, ORT_PREBUILT_EXTRACT_DIR)
downloaded_file == join(OUT_DIR, prebuilt.archive)

\* prebuilt_archive_url, as called on entry to prepare_libort_dir_prebuilt
prebuilt_archive_url ==
    /\ pc = "prebuilt_archive_url"
    /\ LET os == Os_from_str(targetOs)
           arch == Architecture_from_str(targetArch)
       IN  IF os.err
           THEN /\ Abort("called Result::unwrap() on an Err value: " \o os.val)
                /\ UNCHANGED << env, triplet, prebuilt >>
           ELSE IF targetArch = Unset
           THEN /\ Abort("Unable to get TARGET_ARCH: NotPresent")
                /\ UNCHANGED << env, triplet, prebuilt >>
           ELSE IF arch.err
           THEN /\ Abort("called Result::unwrap() on an Err value: " \o arch.val)
                /\ UNCHANGED << env, triplet, prebuilt >>
           ELSE \E g \in GpuValues :
                  LET acc == Accelerator_from_str(IF g = Unset THEN "" ELSE g)
                      t == [os |-> os.val, arch |-> arch.val, accelerator |-> acc.val]
                      token == Triplet_as_onnx_str(t)
                      archive == prebuilt_archive_name(token.val, t.os)
                  IN  /\ env' = [env EXCEPT !.gpu = g]
                      /\ triplet' = t
                      /\ IF token.err
                         THEN /\ Abort(token.val)
                              /\ UNCHANGED prebuilt
                         ELSE /\ prebuilt' = [archive |-> archive,
                                              url |-> prebuilt_url_of(archive)]
                              /\ pc' = "check_download"
                              /\ UNCHANGED panic
    /\ UNCHANGED << targetOs, targetArch, returned, fs, git, builds, k, resp, cmd, result,
                    log, atStart >>

\* check_download with a single gate: an existing archive file skips the
\* extraction as well
check_download_single_gate ==
    /\ pc = "check_download"
    /\ IF exists(fs, join(OUT_DIR, prebuilt.archive))
       THEN /\ Return(join(join(OUT_DIR, ORT_PREBUILT_EXTRACT_DIR),
                           file_stem(prebuilt.archive)))
            /\ UNCHANGED fs
       ELSE /\ fs' = create_dir_all(fs, OUT_DIR)
            /\ pc' = "download"
            /\ UNCHANGED result
    /\ UNCHANGED << targetOs, targetArch, returned, git, builds, env, triplet, prebuilt,
                    k, resp, cmd, panic, log, atStart >>

\* check_download without the test of the downloaded file
check_download_always ==
    /\ pc = "check_download"
    /\ fs' = create_dir_all(fs, OUT_DIR)
    /\ pc' = "download"
    /\ UNCHANGED << targetOs, targetArch, returned, git, builds, env, triplet, prebuilt,
                    k, resp, cmd, result, panic, log, atStart >>

\* if !downloaded_file.exists() { fs::create_dir_all(&out_dir) ... }
check_download ==
    /\ pc = "check_download"
    /\ IF exists(fs, downloaded_file)
       THEN /\ pc' = "check_extract"
            /\ UNCHANGED fs
       ELSE /\ fs' = create_dir_all(fs, OUT_DIR)
            /\ pc' = "download"
    /\ UNCHANGED << targetOs, targetArch, returned, git, builds, env, triplet, prebuilt,
                    k, resp, cmd, result, panic, log, atStart >>

\* download: the request, the Content-Length header, the body
DownloadOutcomes == {"ok", "transport_error", "no_content_length", "read_error",
                     "length_mismatch"}

\* download that saves the body directly to the file, before the length checks
download_call_saves_directly ==
    /\ pc = "download"
    /\ log' = Append(log, "http_request")
    /\ \E o \in DownloadOutcomes :
         CASE o = "ok" ->
                /\ pc' = "download_write"
                /\ UNCHANGED << fs, panic >>
           [] o = "transport_error" ->
                /\ Abort("ERROR: Failed to download " \o prebuilt.url)
                /\ UNCHANGED fs
           [] o = "no_content_length" ->
                /\ Abort("called Option::unwrap() on a None value")
                /\ UNCHANGED fs
           [] o = "read_error" ->
                /\ fs' = write_file(fs, join(OUT_DIR, prebuilt.archive), Truncated)
                /\ Abort("called Result::unwrap() on an Err value")
           [] o = "length_mismatch" ->
                /\ fs' = write_file(fs, join(OUT_DIR, prebuilt.archive), Truncated)
                /\ Abort("assertion failed: (left == right)")
    /\ UNCHANGED << targetOs, targetArch, returned, git, builds, env, triplet, prebuilt,
                    k, resp, cmd, result, atStart >>

download_call ==
    /\ pc = "download"
    /\ log' = Append(log, "http_request")
    /\ \E o \in DownloadOutcomes :
         CASE o = "ok" ->
                /\ pc' = "download_write"
                /\ UNCHANGED panic
           [] o = "transport_error" ->
                Abort("ERROR: Failed to download " \o prebuilt.url)
           [] o = "no_content_length" ->
                Abort("called Option::unwrap() on a None value")
           [] o = "read_error" ->
                Abort("called Result::unwrap() on an Err value")
           [] o = "length_mismatch" ->
                Abort("assertion failed: (left == right)")
    /\ UNCHANGED << targetOs, targetArch, returned, fs, git, builds, env, triplet, prebuilt,
                    k, resp, cmd, result, atStart >>

\* download: File::create and write_all of the buffered body
WriteOutcomes == {"ok", "create_failed", "write_failed"}

download_write ==
    /\ pc = "download_write"
    /\ \E o \in WriteOutcomes :
         CASE o = "ok" ->
                /\ fs' = write_file(fs, downloaded_file, prebuilt.archive)
                /\ pc' = "check_extract"
                /\ UNCHANGED panic
           [] o = "create_failed" ->
                /\ Abort("called Result::unwrap() on an Err value")
                /\ UNCHANGED fs
           [] o = "write_failed" ->
                /\ fs' = write_file(fs, downloaded_file, Truncated)
                /\ Abort("called Result::unwrap() on an Err value")
    /\ UNCHANGED << targetOs, targetArch, returned, git, builds, env, triplet, prebuilt,
                    k, resp, cmd, result, log, atStart >>

\* the root prepare_libort_dir_prebuilt returns
prebuilt_root == join(extract_dir, file_stem(prebuilt.archive))

\* if !extract_dir.exists() { extract_archive(..) }: the dispatch of
\* extract_archive and the opening of the archive
check_extract ==
    /\ pc = "check_extract"
    /\ IF exists(fs, extract_dir)
       THEN /\ Return(prebuilt_root)
            /\ UNCHANGED << fs, k, panic, log >>
       ELSE /\ log' = Append(log, "extract")
            /\ UNCHANGED result
            /\ LET ext == extension(prebuilt.archive)
                   data == fs[downloaded_file].data
               IN  CASE ext = "zip" ->
                          \* ZipArchive::new reads the central directory
                          IF data = Truncated
                          THEN /\ Abort("called Result::unwrap() on an Err value")
                               /\ UNCHANGED << fs, k >>
                          ELSE /\ pc' = "extract_zip"
                               /\ k' = 1
                               /\ UNCHANGED << fs, panic >>
                     [] ext = "tgz" ->
                          \* Archive::unpack creates the destination first
                          /\ fs' = create_dir_all(fs, extract_dir)
                          /\ IF data = Truncated
                             THEN /\ Abort("called Result::unwrap() on an Err value")
                                  /\ UNCHANGED k
                             ELSE /\ pc' = "extract_tgz"
                                  /\ k' = 1
                                  /\ UNCHANGED panic
                     [] OTHER ->
                          /\ Abort("not implemented")
                          /\ UNCHANGED << fs, k >>
    /\ UNCHANGED << targetOs, targetArch, returned, git, builds, env, triplet, prebuilt,
                    resp, cmd, atStart >>

EntryOutcomes == {"ok", "failed", "failed_part_way"}

\* extract_zip: one iteration of the loop over the archive's entries
extract_zip_entry ==
    /\ pc = "extract_zip"
    /\ LET archive == fs[downloaded_file].data
           entries == ArchiveEntries(archive)
       IN  /\ k <= Len(entries)
           /\ LET name == entries[k]
                  outpath == extract_dir \o sanitized_name(name)
              IN  IF ends_with_slash(name)
                  THEN /\ k' = k + 1
                       /\ UNCHANGED << fs, pc, panic >>
                  ELSE \E o \in EntryOutcomes :
                         CASE o = "ok" /\ creatable(fs, outpath) /\ outpath # extract_dir ->
                                /\ fs' = write_file(create_dir_all(fs, parent(outpath)),
                                                    outpath, EntryData(archive, name))
                                /\ k' = k + 1
                                /\ UNCHANGED << pc, panic >>
                           [] o = "failed_part_way" /\ creatable(fs, outpath)
                              /\ outpath # extract_dir ->
                                /\ fs' = write_file(create_dir_all(fs, parent(outpath)),
                                                    outpath, Truncated)
                                /\ Abort("called Result::unwrap() on an Err value")
                                /\ UNCHANGED k
                           [] OTHER ->
                                /\ Abort("called Result::unwrap() on an Err value")
                                /\ UNCHANGED << fs, k >>
    /\ UNCHANGED << targetOs, targetArch, returned, git, builds, env, triplet, prebuilt,
                    resp, cmd, result, log, atStart >>

\* extract_tgz: Archive::unpack, one entry of the archive
extract_tgz_entry ==
    /\ pc = "extract_tgz"
    /\ LET archive == fs[downloaded_file].data
           entries == ArchiveEntries(archive)
       IN  /\ k <= Len(entries)
           /\ LET name == entries[k]
                  outpath == extract_dir \o NormalComponents(name)
              IN  \E o \in EntryOutcomes :
                    CASE o = "ok" ->
                           /\ fs' = IF ends_with_slash(name)
                                    THEN create_dir_all(fs, outpath)
                                    ELSE write_file(create_dir_all(fs, parent(outpath)),
                                                    outpath, EntryData(archive, name))
                           /\ k' = k + 1
                           /\ UNCHANGED << pc, panic >>
                      [] o = "failed" ->
                           /\ Abort("called Result::unwrap() on an Err value")
                           /\ UNCHANGED << fs, k >>
                      [] o = "failed_part_way" ->
                           /\ fs' = IF ends_with_slash(name)
                                    THEN create_dir_all(fs, parent(outpath))
                                    ELSE write_file(create_dir_all(fs, parent(outpath)),
                                                    outpath, Truncated)
                           /\ Abort("called Result::unwrap() on an Err value")
                           /\ UNCHANGED k
    /\ UNCHANGED << targetOs, targetArch, returned, git, builds, env, triplet, prebuilt,
                    resp, cmd, result, log, atStart >>

\* extract_dir.join(prebuilt_archive.file_stem().unwrap()), after extraction
prebuilt_return ==
    /\ pc \in {"extract_zip", "extract_tgz"}
    /\ k > Len(ArchiveEntries(fs[downloaded_file].data))
    /\ Return(prebuilt_root)
    /\ UNCHANGED << targetOs, targetArch, returned, fs, git, builds, env, triplet, prebuilt,
                    k, resp, cmd, panic, log, atStart >>

(***************************************************************************)
(* mod android: OS, Arch, version_name.                                    *)
(***************************************************************************)
OS_from_str(s) ==
    IF s = "android" THEN Ok("Android") ELSE Err("unsupported os: " \o s)

OS_to_string(os) ==
    CASE os = "Android" -> "android"

OS_as_build_name(os) ==
    CASE os = "Android" -> "Android"

Arch_from_str(s) ==
    IF s \in {"x86", "x86_64", "arm", "aarch64"} THEN Ok(s)
    ELSE Err("unsupported arch: " \o s)

Arch_to_string(arch) ==
    CASE arch = "x86" -> "x86"
      [] arch = "x86_64" -> "x86_64"
      [] arch = "arm" -> "arm"
      [] arch = "aarch64" -> "aarch64"

\* an ABI table that gives both arm architectures the 32-bit ABI
Arch_as_android_arch_arm_shared(arch) ==
    CASE arch = "x86" -> "x86"
      [] arch = "x86_64" -> "x86_64"
      [] arch = "arm" -> "armeabi-v7a"
      [] arch = "aarch64" -> "armeabi-v7a"

Arch_as_android_arch(arch) ==
    CASE arch = "x86" -> "x86"
      [] arch = "x86_64" -> "x86_64"
      [] arch = "arm" -> "armeabi-v7a"
      [] arch = "aarch64" -> "arm64-v8a"

\* a version name that leaves the architecture out
version_name_without_arch(os, arch) ==
    OS_to_string(os) \o "-lvl-" \o ToString(ANDROID_API_LEVEL) \o "-v" \o ORT_VERSION

version_name(os, arch) ==
    OS_to_string(os) \o "-" \o Arch_to_string(arch) \o "-lvl-"
        \o ToString(ANDROID_API_LEVEL) \o "-v" \o ORT_VERSION

\* the Target built by setup
target == [os |-> OS_from_str(targetOs).val, arch |-> Arch_from_str(targetArch).val]

\* download_prebuilt: workdir, lib_dir, lib, url
download_workdir ==
    join(join(OUT_DIR, ORT_PREBUILT_EXTRACT_DIR \o "-download"),
         version_name(target.os, target.arch))
download_lib_dir == join(download_workdir, "lib")
download_lib == join(download_lib_dir, "libonnxruntime.so")
download_url ==
    "http://s3-de-central.profitbricks.com/xayn-yellow-bert/onnxruntime" \o "/"
        \o version_name(target.os, target.arch) \o "/libonnxruntime.so"

\* prepare_git_repository: workdir; build_target: release_dir, version_dir
git_workdir == join(OUT_DIR, ORT_PREBUILT_EXTRACT_DIR \o "-git")
release_dir == join(OUT_DIR, ORT_PREBUILT_EXTRACT_DIR \o "-release")
version_dir == join(release_dir, version_name(target.os, target.arch))

(***************************************************************************)
(* android::setup.                                                         *)
(***************************************************************************)
\* setup that calls compile without trying the remote prebuilt
android_setup_compile_first ==
    /\ pc = "android_setup"
    /\ LET os == OS_from_str(targetOs)
           arch == Arch_from_str(targetArch)
       IN  IF os.err
           THEN Abort("Failed to get TARGET_OS: " \o os.val)
           ELSE IF targetArch = Unset
           THEN Abort("Failed to get TARGET_ARCH: NotPresent")
           ELSE IF arch.err
           THEN Abort("Failed to get TARGET_ARCH: " \o arch.val)
           ELSE /\ pc' = "prepare_git_repository"
                /\ UNCHANGED panic
    /\ UNCHANGED << targetOs, targetArch, returned, fs, git, builds, env, triplet, prebuilt,
                    k, resp, cmd, result, log, atStart >>

android_setup ==
    /\ pc = "android_setup"
    /\ LET os == OS_from_str(targetOs)
           arch == Arch_from_str(targetArch)
       IN  IF os.err
           THEN Abort("Failed to get TARGET_OS: " \o os.val)
           ELSE IF targetArch = Unset
           THEN Abort("Failed to get TARGET_ARCH: NotPresent")
           ELSE IF arch.err
           THEN Abort("Failed to get TARGET_ARCH: " \o arch.val)
           ELSE /\ pc' = "download_prebuilt"
                /\ UNCHANGED panic
    /\ UNCHANGED << targetOs, targetArch, returned, fs, git, builds, env, triplet, prebuilt,
                    k, resp, cmd, result, log, atStart >>

\* download_prebuilt without the test of the library file
download_prebuilt_always ==
    /\ pc = "download_prebuilt"
    /\ pc' = "prebuilt_call"
    /\ UNCHANGED << targetOs, targetArch, returned, fs, git, builds, env, triplet, prebuilt,
                    k, resp, cmd, result, panic, log, atStart >>

\* download_prebuilt: if !lib.exists() { ... } Ok(workdir)
download_prebuilt ==
    /\ pc = "download_prebuilt"
    /\ IF exists(fs, download_lib)
       THEN /\ Return(download_workdir)
            /\ log' = Append(log, "remote_ok")
       ELSE /\ pc' = "prebuilt_call"
            /\ UNCHANGED << result, log >>
    /\ UNCHANGED << targetOs, targetArch, returned, fs, git, builds, env, triplet, prebuilt,
                    k, resp, cmd, panic, atStart >>

\* ureq::get(&url).call()?: an Err of download_prebuilt makes setup call compile
prebuilt_call ==
    /\ pc = "prebuilt_call"
    /\ \E o \in {"ok", "error"} :
         CASE o = "ok" ->
                /\ log' = Append(log, "http_request")
                /\ pc' = "prebuilt_read"
           [] o = "error" ->
                /\ log' = log \o << "http_request", "remote_failed" >>
                /\ pc' = "prepare_git_repository"
    /\ UNCHANGED << targetOs, targetArch, returned, fs, git, builds, env, triplet, prebuilt,
                    k, resp, cmd, result, panic, atStart >>

\* resp.read_to_end(&mut buf).expect(..): the body, whole or cut short by
\* the end of the stream, or an error of the read
prebuilt_read ==
    /\ pc = "prebuilt_read"
    /\ \E o \in {"ok", "short", "read_error"} :
         CASE o = "ok" ->
                /\ resp' = "prebuilt!" \o download_url
                /\ pc' = "prebuilt_write"
                /\ UNCHANGED panic
           [] o = "short" ->
                /\ resp' = Truncated
                /\ pc' = "prebuilt_write"
                /\ UNCHANGED panic
           [] o = "read_error" ->
                /\ Abort("Failed to read the content of the request")
                /\ UNCHANGED resp
    /\ UNCHANGED << targetOs, targetArch, returned, fs, git, builds, env, triplet, prebuilt,
                    k, cmd, result, log, atStart >>

\* fs::create_dir_all(&lib_dir), fs::write(lib, buf), Ok(workdir)
prebuilt_write ==
    /\ pc = "prebuilt_write"
    /\ \E o \in {"ok", "mkdir_failed", "create_failed", "write_failed"} :
         CASE o = "ok" ->
                /\ fs' = write_file(create_dir_all(fs, download_lib_dir),
                                    download_lib, resp)
                /\ Return(download_workdir)
                /\ log' = Append(log, "remote_ok")
                /\ UNCHANGED panic
           [] o = "mkdir_failed" ->
                /\ Abort("Failed to create library directory")
                /\ UNCHANGED << fs, result, log >>
           [] o = "create_failed" ->
                /\ fs' = create_dir_all(fs, download_lib_dir)
                /\ Abort("Failed to write content into file")
                /\ UNCHANGED << result, log >>
           [] o = "write_failed" ->
                /\ fs' = write_file(create_dir_all(fs, download_lib_dir),
                                    download_lib, Truncated)
                /\ Abort("Failed to write content into file")
                /\ UNCHANGED << result, log >>
    /\ UNCHANGED << targetOs, targetArch, returned, git, builds, env, triplet, prebuilt,
                    k, resp, cmd, atStart >>

(***************************************************************************)
(* android::compile: prepare_git_repository, build_target.                 *)
(***************************************************************************)
GitTag == "refs/tags/v" \o ORT_VERSION

\* Repository::clone, or Repository::open when the clone reports Exists
git_clone_or_open ==
    /\ pc = "prepare_git_repository"
    /\ IF non_empty_dir(fs, git_workdir)
       THEN \* ErrorCode::Exists
            /\ IF exists(fs, join(git_workdir, ".git"))
               THEN /\ pc' = "git_checkout"
                    /\ UNCHANGED panic
               ELSE Abort("Failed to open repository")
            /\ UNCHANGED << fs, git, log >>
       ELSE /\ log' = Append(log, "git_clone")
            /\ \E o \in {"ok", "error"} :
                 CASE o = "ok" ->
                        /\ fs' = create_dir_all(fs, join(git_workdir, ".git"))
                        /\ git' = [head |-> "ref:refs/heads/main", tree |-> "main",
                                   resolved |-> ""]
                        /\ pc' = "git_checkout"
                        /\ UNCHANGED panic
                   [] o = "error" ->
                        /\ Abort("Failed to clone repository")
                        /\ UNCHANGED << fs, git >>
    /\ UNCHANGED << targetOs, targetArch, returned, builds, env, triplet, prebuilt,
                    k, resp, cmd, result, atStart >>

\* a HEAD that is detached whatever the name resolved to
set_head_always_detached(reference) == "detached:v" \o ORT_VERSION

\* match reference { Some(gref) => repo.set_head(gref.name()),
\*                   None => repo.set_head_detached(object.id()) }
set_head(reference) ==
    IF reference = "reference" THEN "ref:" \o GitTag ELSE "detached:v" \o ORT_VERSION

\* revparse_ext, checkout_tree, set_head / set_head_detached; resolved is
\* what revparse_ext returned: a reference, or a bare commit
git_checkout ==
    /\ pc = "git_checkout"
    /\ \E o \in {"reference", "commit", "not_found", "checkout_failed",
                 "set_head_failed"} :
         CASE o \in {"reference", "commit"} ->
                /\ git' = [head |-> set_head(o), tree |-> "v" \o ORT_VERSION,
                           resolved |-> o]
                /\ pc' = "build_android"
                /\ log' = Append(log, "git_checkout")
                /\ UNCHANGED panic
           [] o = "not_found" ->
                /\ Abort("Object not found")
                /\ UNCHANGED << git, log >>
           [] o = "checkout_failed" ->
                /\ Abort("Failed to checkout")
                /\ UNCHANGED << git, log >>
           [] o = "set_head_failed" ->
                /\ \E r \in {"reference", "commit"} :
                       git' = [git EXCEPT !.tree = "v" \o ORT_VERSION, !.resolved = r]
                /\ log' = Append(log, "git_checkout")
                /\ Abort("Failed to set HEAD")
    /\ UNCHANGED << targetOs, targetArch, returned, fs, builds, env, triplet, prebuilt,
                    k, resp, cmd, result, atStart >>

\* the test with the level 27 itself refused
nnapi_unsupported_at_27(with_nnapi, api_level) == with_nnapi /\ api_level <= 27

\* with_nnapi.is_some() && ANDROID_API_LEVEL < 27
nnapi_unsupported(with_nnapi, api_level) == with_nnapi /\ api_level < 27

\* build_android up to the test of version_dir; build_target returns
\* version_dir when build_android returns
build_android ==
    /\ pc = "build_android"
    /\ \E sdk \in SdkValues :
         IF sdk = Unset
         THEN /\ env' = [env EXCEPT !.sdk = sdk]
              /\ Abort("Failed to get ANDROID_SDK_HOME: NotPresent")
              /\ UNCHANGED result
         ELSE \E ndk \in NdkValues :
           IF ndk = Unset
           THEN /\ env' = [env EXCEPT !.sdk = sdk, !.ndk = ndk]
                /\ Abort("Failed to get ANDROID_NDK_HOME: NotPresent")
                /\ UNCHANGED result
           ELSE \E nnapi \in NnapiValues :
             /\ env' = [env EXCEPT !.sdk = sdk, !.ndk = ndk, !.nnapi = nnapi]
             /\ IF nnapi_unsupported(nnapi # Unset, ANDROID_API_LEVEL)
                THEN /\ Abort("nnapi requires no less than api level 27")
                     /\ UNCHANGED result
                ELSE IF exists(fs, version_dir)
                THEN /\ Return(version_dir)
                     /\ UNCHANGED panic
                ELSE /\ pc' = "spawn"
                     /\ UNCHANGED << result, panic >>
    /\ UNCHANGED << targetOs, targetArch, returned, fs, git, builds, triplet, prebuilt,
                    k, resp, cmd, log, atStart >>

\* the arguments given to sh
build_args(sdk, ndk, arch, with_nnapi) ==
    << "build.sh", "--android", "--android_sdk_path", sdk, "--android_ndk_path", ndk,
       "--android_abi", Arch_as_android_arch(arch),
       "--android_api", ToString(ANDROID_API_LEVEL) >>
    \o (IF with_nnapi THEN << "--use_nnapi" >> ELSE << >>)
    \o << "--parallel", "0", "--skip_tests", "--build_shared_lib", "--config", "Release" >>

\* spawn_build that creates the release directory before it looks at the
\* exit status
spawn_build_creates_release_dir ==
    /\ pc = "spawn"
    /\ cmd' = build_args(env.sdk, env.ndk, target.arch, env.nnapi # Unset)
    /\ log' = Append(log, "spawn_build")
    /\ \E o \in {"success", "exit_nonzero", "spawn_failed"} :
         CASE o = "success" ->
                /\ pc' = "mimic"
                /\ k' = 1
                /\ UNCHANGED << fs, panic >>
           [] o = "exit_nonzero" ->
                /\ fs' = create_dir_all(fs, version_dir)
                /\ Abort("Failed to build android library for target "
                         \o Arch_to_string(target.arch))
                /\ UNCHANGED k
           [] o = "spawn_failed" ->
                /\ Abort("Process failed to execute")
                /\ UNCHANGED << fs, k >>
    /\ UNCHANGED << targetOs, targetArch, returned, git, builds, env, triplet, prebuilt,
                    resp, result, atStart >>

\* cmd.status(): the cross-build subprocess
spawn_build ==
    /\ pc = "spawn"
    /\ cmd' = build_args(env.sdk, env.ndk, target.arch, env.nnapi # Unset)
    /\ log' = Append(log, "spawn_build")
    /\ \E o \in {"success", "exit_nonzero", "spawn_failed"} :
         CASE o = "success" ->
                /\ pc' = "mimic"
                /\ k' = 1
                /\ UNCHANGED panic
           [] o = "exit_nonzero" ->
                /\ Abort("Failed to build android library for target "
                         \o Arch_to_string(target.arch))
                /\ UNCHANGED k
           [] o = "spawn_failed" ->
                /\ Abort("Process failed to execute")
                /\ UNCHANGED k
    /\ UNCHANGED << targetOs, targetArch, returned, fs, git, builds, env, triplet, prebuilt,
                    resp, result, atStart >>

\* the headers mimic_release_package copies, in order
ReleaseHeaders ==
    << "onnxruntime_c_api.h", "onnxruntime_cxx_api.h", "onnxruntime_cxx_inline.h",
       "cpu_provider_factory.h", "onnxruntime_session_options_config_keys.h",
       "onnxruntime_run_options_config_keys.h", "provider_options.h" >>

\* mimic_release_package that copies the extra provider's header whether or
\* not it was asked for
mimic_steps_always_extra(vdir, with_extra_provider) ==
    LET lib_target_dir == join(vdir, "lib")
        include_target_dir == join(vdir, "include")
        copy(dir, name) == [op |-> "copy", path |-> join(dir, name)]
    IN  << [op |-> "create_dir_all", path |-> vdir],
           [op |-> "create_dir", path |-> lib_target_dir],
           copy(lib_target_dir, "libonnxruntime.so"),
           [op |-> "create_dir", path |-> include_target_dir] >>
        \o [i \in 1..Len(ReleaseHeaders) |-> copy(include_target_dir, ReleaseHeaders[i])]
        \o << copy(include_target_dir, "nnapi_provider_factory.h") >>

\* the file-system calls of mimic_release_package, in order
mimic_steps(vdir, with_extra_provider) ==
    LET lib_target_dir == join(vdir, "lib")
        include_target_dir == join(vdir, "include")
        copy(dir, name) == [op |-> "copy", path |-> join(dir, name)]
    IN  << [op |-> "create_dir_all", path |-> vdir],
           [op |-> "create_dir", path |-> lib_target_dir],
           copy(lib_target_dir, "libonnxruntime.so"),
           [op |-> "create_dir", path |-> include_target_dir] >>
        \o [i \in 1..Len(ReleaseHeaders) |-> copy(include_target_dir, ReleaseHeaders[i])]
        \o (IF with_extra_provider
            THEN << copy(include_target_dir, "nnapi_provider_factory.h") >>
            ELSE << >>)

\* mimic_release_package: one file-system call
mimic_release_package ==
    /\ pc = "mimic"
    /\ LET steps == mimic_steps(version_dir, env.nnapi # Unset)
       IN  /\ k <= Len(steps)
           /\ LET step == steps[k]
              IN  \E o \in EntryOutcomes :
                    CASE o = "ok" /\ ~(step.op = "create_dir" /\ exists(fs, step.path)) ->
                           /\ fs' = IF step.op = "copy"
                                    THEN write_file(fs, step.path, "built!" \o git.tree)
                                    ELSE create_dir_all(fs, step.path)
                           /\ k' = k + 1
                           /\ UNCHANGED << pc, panic >>
                      [] o = "failed_part_way" /\ step.op = "copy" ->
                           /\ fs' = write_file(fs, step.path, Truncated)
                           /\ Abort("called Result::unwrap() on an Err value")
                           /\ UNCHANGED k
                      [] OTHER ->
                           /\ Abort(IF k = 1 THEN "Failed to create release directory"
                                    ELSE "called Result::unwrap() on an Err value")
                           /\ UNCHANGED << fs, k >>
    /\ UNCHANGED << targetOs, targetArch, returned, git, builds, env, triplet, prebuilt,
                    resp, cmd, result, log, atStart >>

\* build_target returns version_dir after mimic_release_package
build_target_return ==
    /\ pc = "mimic"
    /\ k > Len(mimic_steps(version_dir, env.nnapi # Unset))
    /\ Return(version_dir)
    /\ UNCHANGED << targetOs, targetArch, returned, fs, git, builds, env, triplet, prebuilt,
                    k, resp, cmd, panic, log, atStart >>

Next ==
    \/ StartBuild
    \/ prepare_libort_dir
    \/ prebuilt_archive_url
    \/ check_download
    \/ download_call
    \/ download_write
    \/ check_extract
    \/ extract_zip_entry
    \/ extract_tgz_entry
    \/ prebuilt_return
    \/ android_setup
    \/ download_prebuilt
    \/ prebuilt_call
    \/ prebuilt_read
    \/ prebuilt_write
    \/ git_clone_or_open
    \/ git_checkout
    \/ build_android
    \/ spawn_build
    \/ mimic_release_package
    \/ build_target_return

Spec == Init /\ [][Next]_vars

(***************************************************************************)
(* extract_zip on an arbitrary archive: an invocation of the Download path *)
(* for windows/x86_64 that finds in OUT_DIR, under the name of its         *)
(* archive, a zip file with entry names of any kind, and no extraction     *)
(* directory.                                                              *)
(***************************************************************************)
\* file.name() of the entries: plain, with parent-directory segments,
\* absolute, directory-only
CraftedNames == {"ok/x.txt", "../evil.txt", "/abs/evil.txt", "a/../../b.txt",
                 "evil/", "../up/", ".."}
CraftedArchives == UNION {[1..n -> CraftedNames] : n \in 1..MaxEntries}

WindowsArchive == prebuilt_archive_name("win-x64", "Windows")

InitZip ==
    /\ targetOs = "windows"
    /\ targetArch = "x86_64"
    /\ \E names \in CraftedArchives :
         fs = write_file(InitFs, join(OUT_DIR, WindowsArchive), CraftedZip(names))
    /\ git = NoGit
    /\ builds = 1
    /\ pc = "check_extract"
    /\ env = [NoEnv EXCEPT !.strategy = "download", !.gpu = Unset]
    /\ triplet = [os |-> "Windows", arch |-> "X86_64", accelerator |-> "None"]
    /\ prebuilt = [archive |-> WindowsArchive, url |-> prebuilt_url_of(WindowsArchive)]
    /\ k = 0
    /\ resp = ""
    /\ cmd = << >>
    /\ result = NoPath
    /\ panic = ""
    /\ log = << "strategy_selected" >>
    /\ atStart = fs
    /\ returned = {}

NextZip ==
    \/ check_extract
    \/ extract_zip_entry
    \/ prebuilt_return

SpecZip == InitZip /\ [][NextZip]_vars

(***************************************************************************)
(* Invocations for android whose TARGET_ARCH differs from one invocation   *)
(* to the next while OUT_DIR stays the same: android::setup reads the      *)
(* variable anew each time, and the directories of the earlier targets     *)
(* are still in OUT_DIR.                                                   *)
(***************************************************************************)
RetargetArchValues == {"arm", "aarch64"}

InitRetarget ==
    /\ targetOs = "android"
    /\ targetArch \in RetargetArchValues
    /\ fs = InitFs
    /\ git = NoGit
    /\ builds = 0
    /\ pc = "idle"
    /\ env = NoEnv
    /\ triplet = NoTriplet
    /\ prebuilt = NoPrebuilt
    /\ k = 0
    /\ resp = ""
    /\ cmd = << >>
    /\ result = NoPath
    /\ panic = ""
    /\ log = << >>
    /\ atStart = InitFs
    /\ returned = {}

\* main, started with a TARGET_ARCH of its own
StartBuildRetargeted ==
    /\ pc \in {"idle", "done", "aborted"}
    /\ builds < MaxRetargets
    /\ builds' = builds + 1
    /\ targetArch' \in RetargetArchValues
    /\ pc' = "prepare_libort_dir"
    /\ env' = NoEnv
    /\ triplet' = NoTriplet
    /\ prebuilt' = NoPrebuilt
    /\ k' = 0
    /\ resp' = ""
    /\ cmd' = << >>
    /\ result' = NoPath
    /\ panic' = ""
    /\ log' = << >>
    /\ atStart' = fs
    /\ returned' = IF pc = "done"
                   THEN returned \cup {<< prebuilt.archive, result >>}
                   ELSE returned
    /\ UNCHANGED << targetOs, fs, git >>

NextRetarget ==
    \/ StartBuildRetargeted
    \/ prepare_libort_dir
    \/ prebuilt_archive_url
    \/ android_setup
    \/ download_prebuilt
    \/ prebuilt_call
    \/ prebuilt_read
    \/ prebuilt_write
    \/ git_clone_or_open
    \/ git_checkout
    \/ build_android
    \/ spawn_build
    \/ mimic_release_package
    \/ build_target_return

SpecRetarget == InitRetarget /\ [][NextRetarget]_vars

(***************************************************************************)
(* Vocabulary of the properties.                                           *)
(***************************************************************************)
InLog(e) == \E i \in 1..Len(log) : log[i] = e

Contains(s, sub) ==
    \E i \in 1..(Len(s) - Len(sub) + 1) : SubSeq(s, i, i + Len(sub) - 1) = sub

TripletKey(t) == << t.os, t.arch, t.accelerator >>

\* the enumerated table: the token documented for each supported triplet
DocumentedToken ==
    (<< "Windows", "X86", "None" >> :> "win-x86")
    @@ (<< "Windows", "X86_64", "None" >> :> "win-x64")
    @@ (<< "Windows", "Arm", "None" >> :> "win-arm")
    @@ (<< "Windows", "Arm64", "None" >> :> "win-arm64")
    @@ (<< "Linux", "X86_64", "None" >> :> "linux-x64")
    @@ (<< "MacOs", "X86_64", "None" >> :> "osx-x64")
    @@ (<< "Windows", "X86_64", "Gpu" >> :> "win-gpu-x64")
    @@ (<< "Linux", "X86_64", "Gpu" >> :> "linux-x64-gpu")

\* the archive file name documented for each supported triplet
DocumentedArchive ==
    (<< "Windows", "X86", "None" >> :> "onnxruntime-win-x86-1.11.1.zip")
    @@ (<< "Windows", "X86_64", "None" >> :> "onnxruntime-win-x64-1.11.1.zip")
    @@ (<< "Windows", "Arm", "None" >> :> "onnxruntime-win-arm-1.11.1.zip")
    @@ (<< "Windows", "Arm64", "None" >> :> "onnxruntime-win-arm64-1.11.1.zip")
    @@ (<< "Linux", "X86_64", "None" >> :> "onnxruntime-linux-x64-1.11.1.tgz")
    @@ (<< "MacOs", "X86_64", "None" >> :> "onnxruntime-osx-x64-1.11.1.tgz")
    @@ (<< "Windows", "X86_64", "Gpu" >> :> "onnxruntime-win-gpu-x64-1.11.1.zip")
    @@ (<< "Linux", "X86_64", "Gpu" >> :> "onnxruntime-linux-x64-gpu-1.11.1.tgz")

\* the invocation runs prepare_libort_dir_prebuilt and has resolved its archive
InDownloadPath == prebuilt.archive # ""

\* the invocation runs android::setup with a valid target
InAndroidPath ==
    /\ env.strategy = Unset
    /\ targetOs = "android"
    /\ ~Arch_from_str(targetArch).err

\* p is a file of f that was written to its end
Whole(f, p) == exists(f, p) /\ f[p].kind = "file" /\ f[p].data # Truncated

\* the files of an archive, as paths under the extraction directory
FileEntries(archive) ==
    {i \in 1..Len(ArchiveEntries(archive)) : ~ends_with_slash(ArchiveEntries(archive)[i])}
EntryPath(archive, i) == extract_dir \o NormalComponents(ArchiveEntries(archive)[i])

\* f holds the whole unpacked content of the archive
Unpacked(f, archive) ==
    \A i \in FileEntries(archive) :
        /\ exists(f, EntryPath(archive, i))
        /\ f[EntryPath(archive, i)] = File(EntryData(archive, ArchiveEntries(archive)[i]))

\* f holds the library and every header mimic_release_package copies
ReleasePackage(f) ==
    /\ Whole(f, join(join(version_dir, "lib"), "libonnxruntime.so"))
    /\ \A i \in 1..Len(ReleaseHeaders) :
           Whole(f, join(join(version_dir, "include"), ReleaseHeaders[i]))

\* f holds no extraction directory, or one with a whole archive unpacked
NoIncompleteExtraction(f) ==
    \/ ~exists(f, extract_dir)
    \/ \E key \in DOMAIN DocumentedArchive : Unpacked(f, DocumentedArchive[key])

AcquisitionEvents == {"http_request", "extract", "git_clone", "git_checkout", "spawn_build"}
CompileEvents == {"git_clone", "git_checkout", "spawn_build"}
RemotePositions == {"download_prebuilt", "prebuilt_call", "prebuilt_read", "prebuilt_write"}
CompilePositions == {"prepare_git_repository", "git_checkout", "build_android",
                     "spawn", "mimic"}

\* the target names the parsers of the two paths accept
DownloadOsNames == {"windows", "linux", "macos"}
ArchNames == {"x86", "x86_64", "arm", "aarch64"}

\* the path the operating system resolves p to: ".." leaves a directory
RECURSIVE resolve(_)
resolve(p) ==
    IF p = << >> THEN << >>
    ELSE LET q == resolve(SubSeq(p, 1, Len(p) - 1))
             c == p[Len(p)]
         IN  CASE c \in {"", "."} -> q
               [] c = ".." -> SubSeq(q, 1, Len(q) - 1)
               [] OTHER -> Append(q, c)

\* p is root or lies beneath it
Within(root, p) ==
    LET q == resolve(p)
    IN  Len(q) >= Len(root) /\ SubSeq(q, 1, Len(root)) = root

\* the paths created or changed between the file systems f and g
Written(f, g) == {p \in DOMAIN g : p \notin DOMAIN f \/ g[p] # f[p]}

\* spellings of the accelerator flag: the four truthy words in mixed case,
\* and values that are none of them
TruthySpellings == {"1", "yes", "Yes", "YES", "yEs", "true", "True", "TRUE", "tRuE",
                    "on", "On", "ON", "oN"}
OtherSpellings == {"", "0", "2", "11", "no", "NO", "false", "False", "off", "OFF",
                   "y", "t", "enabled", "gpu", "cuda", " 1", "1 ", "yes!", Unset}

\* what Accelerator::from_str makes of each spelling
SpellingsConverted ==
    /\ \A s \in TruthySpellings : Accelerator_from_str(s) = Ok("Gpu")
    /\ \A s \in OtherSpellings : Accelerator_from_str(s) = Ok("None")

\* the names of the entries of directory p in f
children(f, p) == {q[Len(q)] : q \in {r \in DOMAIN f : Len(r) = Len(p) + 1 /\ parent(r) = p}}

\* the command of the invocation has the argument a
CmdHasArg(a) == \E i \in 1..Len(cmd) : cmd[i] = a

DownloadPositions == {"prebuilt_archive_url", "check_download", "download",
                      "download_write", "check_extract", "extract_zip", "extract_tgz"}
AndroidPositions == {"android_setup"} \cup RemotePositions \cup CompilePositions

\* the invocation has made no request, extracted, cloned or spawned nothing
\* and has changed nothing on disk or in the clone
NoAcquisition ==
    /\ \A i \in 1..Len(log) : log[i] \notin AcquisitionEvents
    /\ fs = atStart
    /\ cmd = << >>

(***************************************************************************)
(* C1.  Every root that prepare_libort_dir returns has a lib/ and an       *)
(* include/ subdirectory, both existing and non-empty.                     *)
(* The remote Android prebuilt writes lib/libonnxruntime.so only.          *)
(***************************************************************************)
C1_LayoutHandedDownstream ==
    pc = "done" =>
        /\ non_empty_dir(fs, join(result, "lib"))
        /\ non_empty_dir(fs, join(result, "include"))

(***************************************************************************)
(* C2.  Idempotence of the Download path: an invocation that starts with   *)
(* its archive file and the extraction directory on disk makes no network  *)
(* request, extracts nothing, changes nothing on disk, does not abort, and *)
(* returns the root that the earlier invocations of the same archive       *)
(* returned.                                                               *)
(***************************************************************************)
C2_SecondInvocationIdle ==
    (/\ InDownloadPath
     /\ exists(atStart, downloaded_file)
     /\ exists(atStart, extract_dir))
    => /\ ~InLog("http_request")
       /\ ~InLog("extract")
       /\ fs = atStart
       /\ pc # "aborted"
       /\ pc = "done" =>
            /\ result = join(extract_dir, file_stem(prebuilt.archive))
            /\ \A r \in returned : r[1] = prebuilt.archive => r[2] = result

C2_Witness ==
    /\ pc = "done"
    /\ InDownloadPath
    /\ exists(atStart, downloaded_file)
    /\ exists(atStart, extract_dir)
    /\ << prebuilt.archive, result >> \in returned

C4_NoPartialOutput ==
    pc = "done" =>
        /\ InDownloadPath =>
             \A i \in FileEntries(prebuilt.archive) :
                 Whole(fs, EntryPath(prebuilt.archive, i))
        /\ (InAndroidPath /\ result = version_dir) => ReleasePackage(fs)

(***************************************************************************)
(* C5.  A transport failure of the remote Android prebuilt (the request or *)
(* the read of the body) never aborts the build.                           *)
(* The read of the body is an expect: its failure panics.                  *)
(***************************************************************************)
C5_RemoteFailureNotFatal ==
    [][(pc \in {"prebuilt_call", "prebuilt_read"}) => (pc' # "aborted")]_vars

(***************************************************************************)
(* C6.  Ordering: the strategy is selected before any acquisition effect   *)
(* (network request, extraction, clone, checkout, subprocess, change on    *)
(* disk); the compile fallback starts only after the remote attempt has    *)
(* failed, and no remote step follows or accompanies a compile step.       *)
(***************************************************************************)
C6_Ordering ==
    /\ (log # << >> \/ fs # atStart) =>
         /\ log # << >>
         /\ log[1] = "strategy_selected"
         /\ env.strategy # NotRead
    /\ \A i \in 1..Len(log) :
         /\ log[i] \in AcquisitionEvents => i > 1
         /\ log[i] \in CompileEvents => \E j \in 1..(i - 1) : log[j] = "remote_failed"
         /\ log[i] = "remote_failed" =>
              \A j \in (i + 1)..Len(log) : log[j] \in CompileEvents
    /\ pc \in RemotePositions => \A i \in 1..Len(log) : log[i] \notin CompileEvents
    /\ pc \in CompilePositions => (InLog("remote_failed") /\ ~InLog("remote_ok"))

C6_Witness ==
    /\ pc = "mimic"
    /\ InLog("remote_failed")
    /\ InLog("spawn_build")

(***************************************************************************)
(* C7.  For every triplet of the enumerated table as_onnx_str returns the  *)
(* documented token, and resolution goes on to the archive name.           *)
(***************************************************************************)
C7_DocumentedTokens ==
    TripletKey(triplet) \in DOMAIN DocumentedToken =>
        /\ Triplet_as_onnx_str(triplet) = Ok(DocumentedToken[TripletKey(triplet)])
        /\ prebuilt.archive # ""
        /\ ~Contains(panic, "Unsupported prebuilt triplet")

C7_Witness ==
    /\ triplet = [os |-> "Windows", arch |-> "X86_64", accelerator |-> "Gpu"]
    /\ pc = "check_download"

(***************************************************************************)
(* C8.  For every triplet outside the enumerated table the invocation      *)
(* aborts with a message naming the OS, the architecture and the           *)
(* accelerator and pointing at the System strategy; no archive name is     *)
(* produced, no request is made and nothing changes on disk.               *)
(***************************************************************************)
C8_UnsupportedTripletAborts ==
    (triplet # NoTriplet /\ TripletKey(triplet) \notin DOMAIN DocumentedToken) =>
        /\ pc = "aborted"
        /\ Contains(panic, "Unsupported prebuilt triplet: " \o triplet.os \o ", "
                           \o triplet.arch \o ", " \o triplet.accelerator)
        /\ Contains(panic, "ORT_STRATEGY=system")
        /\ Contains(panic, "ORT_LIB_LOCATION=")
        /\ prebuilt = NoPrebuilt
        /\ result = NoPath
        /\ ~InLog("http_request")
        /\ ~InLog("extract")
        /\ fs = atStart

C8_Witness ==
    /\ triplet = [os |-> "MacOs", arch |-> "Arm64", accelerator |-> "None"]
    /\ pc = "aborted"

(***************************************************************************)
(* C9.  prebuilt_archive_url returns the documented file name              *)
(* onnxruntime-{token}-1.11.1.{zip for Windows, tgz otherwise} and the URL *)
(* {base}/v1.11.1/{file name}.                                             *)
(***************************************************************************)
C9_ArchiveNameAndUrl ==
    prebuilt # NoPrebuilt =>
        /\ TripletKey(triplet) \in DOMAIN DocumentedArchive
        /\ prebuilt.archive = DocumentedArchive[TripletKey(triplet)]
        /\ prebuilt.url = "https://github.com/microsoft/onnxruntime/releases/download/v1.11.1/"
                          \o DocumentedArchive[TripletKey(triplet)]
        /\ extension(prebuilt.archive) = (IF triplet.os = "Windows" THEN "zip" ELSE "tgz")

C9_Witness ==
    /\ prebuilt.archive = "onnxruntime-linux-x64-gpu-1.11.1.tgz"
    /\ prebuilt.url = "https://github.com/microsoft/onnxruntime/releases/download/v1.11.1/onnxruntime-linux-x64-gpu-1.11.1.tgz"

(***************************************************************************)
(* C10.  Every Download invocation that returns, returns the root          *)
(* <extraction directory>/<archive stem> of the requested triplet, and     *)
(* that root exists and holds the unpacked content of that triplet's       *)
(* archive, whatever earlier invocations did; stated here for the          *)
(* invocations that start with no incomplete extraction on disk.           *)
(* The extraction directory is shared by all archives and its existence    *)
(* alone skips the extraction.                                             *)
(***************************************************************************)
C10_RootHoldsRequestedArchive ==
    (pc = "done" /\ InDownloadPath /\ NoIncompleteExtraction(atStart)) =>
        /\ result = join(extract_dir, file_stem(prebuilt.archive))
        /\ exists(fs, result)
        /\ Unpacked(fs, prebuilt.archive)

C12_SystemStrategy ==
    (env.strategy = "system" /\ targetOs # Unset) =>
        /\ env.libloc # NotRead
        /\ NoAcquisition
        /\ env.libloc # Unset =>
             /\ pc = "done"
             /\ panic = ""
             /\ result = PathBuf_from(env.libloc)
             /\ env.libloc = "/opt/onnxruntime" => result = << "opt", "onnxruntime" >>
        /\ env.libloc = Unset =>
             /\ pc = "aborted"
             /\ result = NoPath
             /\ Contains(panic, "ORT_LIB_LOCATION")

C12_Witness ==
    /\ env.strategy = "system"
    /\ pc = "done"
    /\ result = << "opt", "onnxruntime" >>
    /\ exists(fs, extract_dir)
    /\ fs = atStart

(***************************************************************************)
(* C13.  Strategy compile on a non-Android target, or any value other than *)
(* download, system and compile (target OS present): the invocation aborts *)
(* with the not-implemented panic, respectively the unknown-value panic    *)
(* naming ORT_STRATEGY; it resolves no archive, returns nothing, makes no  *)
(* network request, extraction, clone or subprocess and leaves the disk    *)
(* as it found it.                                                         *)
(***************************************************************************)
C13_NoSilentFallback ==
    LET compile_asked == env.strategy = "compile" /\ targetOs \notin {"android", Unset}
        unknown_value == /\ env.strategy \notin {NotRead, Unset, "download", "system",
                                                  "compile"}
                         /\ targetOs # Unset
    IN  (compile_asked \/ unknown_value) =>
            /\ pc = "aborted"
            /\ result = NoPath
            /\ triplet = NoTriplet
            /\ prebuilt = NoPrebuilt
            /\ env.libloc = NotRead
            /\ NoAcquisition
            /\ compile_asked => panic = "not implemented"
            /\ unknown_value => /\ Contains(panic, "Unknown value")
                                /\ Contains(panic, "ORT_STRATEGY")

C13_Witness ==
    /\ env.strategy = "compile"
    /\ targetOs = "linux"
    /\ pc = "aborted"
    /\ panic = "not implemented"
    /\ exists(fs, extract_dir)
    /\ fs = atStart

(***************************************************************************)
(* C14, as claimed.  Under every strategy an invocation returns a layout   *)
(* only if the target OS string and the target architecture string are     *)
(* both present and recognized.                                            *)
(* The system arm returns ORT_LIB_LOCATION without parsing the OS and      *)
(* without reading the architecture.                                       *)
(***************************************************************************)
C14_TargetRequiredEveryStrategy ==
    pc = "done" =>
        /\ targetOs \in DownloadOsNames \cup {"android"}
        /\ targetArch \in ArchNames

(***************************************************************************)
(* C14, amended.  The target OS string is required under every strategy:   *)
(* when it is absent the invocation aborts in prepare_libort_dir, naming   *)
(* TARGET_OS.  On the Download path (OS one of windows, linux, macos) and  *)
(* on the Android path (OS android) the OS and the architecture (one of    *)
(* x86, x86_64, arm, aarch64) must both be present and recognized: if not, *)
(* the invocation aborts before any effect, and every layout returned      *)
(* under a strategy other than system is for a recognized target.  The     *)
(* system strategy does not examine them beyond the presence of the OS.    *)
(***************************************************************************)
C14_TargetRequiredWhereRead ==
    LET android_path == env.strategy = Unset /\ targetOs = "android"
        recognized == /\ targetArch \in ArchNames
                      /\ IF android_path THEN TRUE ELSE targetOs \in DownloadOsNames
    IN  /\ targetOs = Unset =>
             /\ pc \in {"idle", "prepare_libort_dir", "aborted"}
             /\ result = NoPath
             /\ NoAcquisition
             /\ pc = "aborted" => Contains(panic, "TARGET_OS")
        /\ (pc = "done" /\ env.strategy # "system") => recognized
        /\ (env.strategy \in {Unset, "download"} /\ targetOs # Unset /\ ~recognized) =>
             /\ pc \in {"prebuilt_archive_url", "android_setup", "aborted"}
             /\ result = NoPath
             /\ prebuilt = NoPrebuilt
             /\ NoAcquisition
             /\ pc = "aborted" =>
                  \/ Contains(panic, "Unsupported os: " \o targetOs)
                  \/ Contains(panic, "Unable to get TARGET_ARCH")
                  \/ Contains(panic, "Failed to get TARGET_ARCH")
                  \/ Contains(panic, "Unsupported architecture: " \o targetArch)

C14_Witness ==
    /\ env.strategy = "download"
    /\ targetOs = "linux"
    /\ targetArch = "riscv64"
    /\ pc = "aborted"
    /\ Contains(panic, "Unsupported architecture: riscv64")

(***************************************************************************)
(* C15.  download: every failure of the request, of the Content-Length     *)
(* header, of the read of the body or of the length comparison aborts the  *)
(* invocation after a single request, with the disk untouched and the      *)
(* target file not created; an invocation that finds no target file        *)
(* always goes to download, and gets past it only after a request.         *)
(***************************************************************************)
C15_FailedFetchLeavesNoFile ==
    [][/\ pc = "download" =>
            /\ pc' \in {"download_write", "aborted"}
            /\ log' = Append(log, "http_request")
            /\ Cardinality({i \in 1..Len(log') : log'[i] = "http_request"}) = 1
            /\ pc' = "aborted" =>
                 /\ fs' = fs
                 /\ ~exists(fs', downloaded_file)
                 /\ \/ Contains(panic', "Failed to download " \o prebuilt.url)
                    \/ panic' = "called Option::unwrap() on a None value"
                    \/ panic' = "called Result::unwrap() on an Err value"
                    \/ panic' = "assertion failed: (left == right)"
       /\ (pc = "check_download" /\ ~exists(fs, downloaded_file)) => pc' = "download"
       /\ (/\ prebuilt'.archive # ""
           /\ ~exists(atStart', join(OUT_DIR, prebuilt'.archive))
           /\ pc' \in {"download_write", "check_extract", "extract_zip", "extract_tgz",
                       "done"})
          => \E i \in 1..Len(log') : log'[i] = "http_request"
      ]_vars

C15_Witness ==
    /\ pc = "aborted"
    /\ panic = "assertion failed: (left == right)"
    /\ InLog("http_request")
    /\ builds > 1
    /\ ~exists(fs, downloaded_file)

C17_ZipContainment ==
    [][pc = "extract_zip" =>
         LET names == ArchiveEntries(fs[downloaded_file].data)
         IN  /\ DOMAIN fs \subseteq DOMAIN fs'
             /\ \A p \in Written(fs, fs') :
                    /\ Within(extract_dir, p)
                    /\ fs'[p].kind = "file" => Len(resolve(p)) > Len(extract_dir)
             /\ \A p \in Written(atStart, fs') : Within(extract_dir, p)
             /\ (k <= Len(names) /\ ends_with_slash(names[k])) =>
                    (fs' = fs /\ k' = k + 1)
      ]_vars

C17_Witness ==
    /\ pc = "done"
    /\ ArchiveEntries(fs[downloaded_file].data) = << "../evil.txt", "/abs/evil.txt" >>
    /\ Whole(fs, extract_dir \o << "evil.txt" >>)
    /\ Whole(fs, extract_dir \o << "abs", "evil.txt" >>)
    /\ ~exists(fs, OUT_DIR \o << "evil.txt" >>)

(***************************************************************************)
(* C18.  ORT_USE_CUDA selects Gpu exactly when its value is one of 1, yes, *)
(* true, on in any mix of upper and lower case; unset, empty or any other  *)
(* value selects None.  The conversion never fails, and the invocation     *)
(* never aborts in prebuilt_archive_url for a reason other than the        *)
(* triplet (with the accelerator so selected) being unsupported.           *)
(***************************************************************************)
C18_AcceleratorFlag ==
    LET selected == IF env.gpu \in TruthySpellings THEN "Gpu" ELSE "None"
    IN  /\ SpellingsConverted
        /\ env.gpu \in TruthySpellings \cup OtherSpellings \cup {NotRead}
        /\ env.gpu # NotRead =>
               /\ triplet.accelerator = selected
               /\ pc = "aborted" /\ prebuilt = NoPrebuilt =>
                      Contains(panic, "Unsupported prebuilt triplet: " \o triplet.os
                                      \o ", " \o triplet.arch \o ", " \o selected)
               /\ TripletKey(triplet) \in DOMAIN DocumentedToken => prebuilt # NoPrebuilt

C18_Witness ==
    /\ env.gpu = "TRUE"
    /\ triplet.accelerator = "Gpu"
    /\ prebuilt.archive = "onnxruntime-linux-x64-gpu-1.11.1.tgz"
    /\ pc = "done"

(***************************************************************************)
(* C19.  The two gates of prepare_libort_dir_prebuilt are independent.  An *)
(* invocation that starts with its archive file on disk but no extraction  *)
(* directory makes no network request and runs the extraction; one that    *)
(* starts with neither makes the request first and extracts afterwards,    *)
(* and when it extracts, the archive file is on disk, written to its end;  *)
(* one that starts with the directory but not the file downloads and does  *)
(* not extract.                                                            *)
(***************************************************************************)
C19_IndependentGates ==
    LET had_file == exists(atStart, downloaded_file)
        had_dir == exists(atStart, extract_dir)
        past_gates == pc \in {"extract_zip", "extract_tgz", "done"}
        request_then_extract ==
            \E i, j \in 1..Len(log) :
                i < j /\ log[i] = "http_request" /\ log[j] = "extract"
    IN  InDownloadPath =>
            /\ (had_file /\ ~had_dir) =>
                   /\ ~InLog("http_request")
                   /\ pc \notin {"download", "download_write"}
                   /\ (past_gates \/ pc = "aborted") => InLog("extract")
            /\ (~had_file /\ ~had_dir) =>
                   /\ past_gates => request_then_extract
                   /\ InLog("extract") =>
                          /\ request_then_extract
                          /\ Whole(fs, downloaded_file)
                          /\ fs[downloaded_file].data = prebuilt.archive
            /\ (~had_file /\ had_dir) =>
                   /\ ~InLog("extract")
                   /\ past_gates => InLog("http_request")

C19_Witness ==
    /\ InDownloadPath
    /\ exists(atStart, downloaded_file)
    /\ ~exists(atStart, extract_dir)
    /\ pc = "done"
    /\ InLog("extract")
    /\ ~InLog("http_request")
    /\ Unpacked(fs, prebuilt.archive)

(***************************************************************************)
(* C20.  The cross-build subprocess either succeeds, and only then does    *)
(* mimic_release_package start, or the invocation aborts (non-zero exit,   *)
(* or the process could not be executed) with the disk as it was and the   *)
(* release directory of the target still absent; only                      *)
(* mimic_release_package writes into that directory; and an invocation     *)
(* that reaches build_android with its inputs present and finds no         *)
(* release directory spawns the subprocess, so every release directory     *)
(* returned that was absent at the start comes from a build of that        *)
(* invocation.                                                             *)
(***************************************************************************)
C20_FailedBuildNotCached ==
    [][/\ pc = "spawn" =>
            /\ pc' \in {"mimic", "aborted"}
            /\ log' = Append(log, "spawn_build")
            /\ fs' = fs
            /\ ~exists(fs', version_dir)
            /\ pc' = "aborted" =>
                 \/ panic' = "Failed to build android library for target " \o targetArch
                 \/ panic' = "Process failed to execute"
            /\ pc' = "mimic" => panic' = ""
       /\ (pc' = "mimic" /\ pc # "mimic") => pc = "spawn"
       /\ Contains(panic', "Failed to build android library") =>
            (pc' = "aborted" /\ ~exists(fs', version_dir))
       /\ (InAndroidPath /\ pc # "mimic") =>
            \A p \in Written(fs, fs') : ~Within(version_dir, p)
       /\ (pc = "build_android" /\ pc' # "aborted" /\ ~exists(fs, version_dir)) =>
            pc' = "spawn"
       /\ (InAndroidPath' /\ pc' = "done" /\ result' = version_dir
           /\ ~exists(atStart', version_dir)) =>
            \E i \in 1..Len(log') : log'[i] = "spawn_build"
      ]_vars

C20_Witness ==
    /\ pc = "aborted"
    /\ Contains(panic, "Failed to build android library for target")
    /\ builds > 1
    /\ InLog("spawn_build")
    /\ ~exists(fs, version_dir)
    /\ fs = atStart

(***************************************************************************)
(* C21.  When an invocation returns the release directory it has just      *)
(* built, that directory holds exactly lib/ and include/; lib/ holds       *)
(* libonnxruntime.so; include/ holds exactly the seven fixed headers, plus *)
(* nnapi_provider_factory.h if and only if ANDROID_NNAPI was set; every    *)
(* file is copied whole from the checked-out build.  The cross-build       *)
(* command has --use_nnapi if and only if ANDROID_NNAPI was set.           *)
(***************************************************************************)
C21_ReleasePackageContent ==
    LET requested == env.nnapi \notin {NotRead, Unset}
        headers == {"onnxruntime_c_api.h", "onnxruntime_cxx_api.h",
                    "onnxruntime_cxx_inline.h", "cpu_provider_factory.h",
                    "onnxruntime_session_options_config_keys.h",
                    "onnxruntime_run_options_config_keys.h", "provider_options.h"}
        expected == IF requested THEN headers \cup {"nnapi_provider_factory.h"}
                    ELSE headers
        include == join(version_dir, "include")
        lib == join(version_dir, "lib")
    IN  /\ InLog("spawn_build") => (CmdHasArg("--use_nnapi") <=> requested)
        /\ (InAndroidPath /\ pc = "done" /\ InLog("spawn_build")) =>
               /\ result = version_dir
               /\ children(fs, version_dir) = {"lib", "include"}
               /\ children(fs, lib) = {"libonnxruntime.so"}
               /\ children(fs, include) = expected
               /\ Whole(fs, join(lib, "libonnxruntime.so"))
               /\ \A h \in expected :
                      /\ Whole(fs, join(include, h))
                      /\ fs[join(include, h)].data = "built!v1.11.1"

C21_Witness ==
    /\ InAndroidPath
    /\ pc = "done"
    /\ InLog("spawn_build")
    /\ env.nnapi = "1"
    /\ CmdHasArg("--use_nnapi")
    /\ Whole(fs, join(join(version_dir, "include"), "nnapi_provider_factory.h"))

(***************************************************************************)
(* C22.  prepare_git_repository: with no clone at the expected path it     *)
(* clones, and a failed clone aborts; with a clone there it opens it       *)
(* without cloning and without aborting.  It then resolves v1.11.1, checks *)
(* it out, and sets HEAD to refs/tags/v1.11.1 when the name resolved to a  *)
(* reference and detached at the commit when it resolved to a bare commit; *)
(* a failure to resolve, check out or set HEAD aborts.  The cross-build    *)
(* subprocess is spawned only after all of this succeeded.                 *)
(***************************************************************************)
C22_GitRepositoryPrepared ==
    [][LET pinned(g) ==
               /\ g.tree = "v1.11.1"
               /\ g.resolved \in {"reference", "commit"}
               /\ g.resolved = "reference" => g.head = "ref:refs/tags/v1.11.1"
               /\ g.resolved = "commit" => g.head = "detached:v1.11.1"
           git_failures == {"Failed to clone repository", "Failed to open repository",
                            "Object not found", "Failed to checkout",
                            "Failed to set HEAD"}
       IN  /\ pc = "prepare_git_repository" =>
                 IF exists(fs, join(git_workdir, ".git"))
                 THEN /\ pc' = "git_checkout"
                      /\ panic' = ""
                      /\ UNCHANGED << fs, git, log >>
                 ELSE /\ log' = Append(log, "git_clone")
                      /\ \/ /\ pc' = "git_checkout"
                            /\ exists(fs', join(git_workdir, ".git"))
                         \/ /\ pc' = "aborted"
                            /\ panic' = "Failed to clone repository"
                            /\ UNCHANGED << fs, git >>
           /\ pc = "git_checkout" =>
                 \/ pc' = "build_android" /\ pinned(git')
                 \/ /\ pc' = "aborted"
                    /\ panic' \in {"Object not found", "Failed to checkout",
                                   "Failed to set HEAD"}
                    /\ git'.head = git.head
           /\ (\E i \in 1..Len(log') : log'[i] = "spawn_build") =>
                 /\ \E i \in 1..Len(log') : log'[i] = "git_checkout"
                 /\ pinned(git')
           /\ panic' \in git_failures =>
                 /\ pc' = "aborted"
                 /\ cmd' = << >>
                 /\ \A i \in 1..Len(log') : log'[i] # "spawn_build"
      ]_vars

C22_Witness ==
    /\ builds > 1
    /\ pc = "build_android"
    /\ exists(atStart, join(git_workdir, ".git"))
    /\ ~InLog("git_clone")
    /\ InLog("git_checkout")
    /\ git.resolved = "commit"
    /\ git.head = "detached:v1.11.1"

(***************************************************************************)
(* C23.  The Android version name is android-{arch}-lvl-27-v1.11.1 and     *)
(* differs for any two architectures.  When invocations for different      *)
(* architectures share one output directory, an invocation writes nothing  *)
(* within the remote-prebuilt or release directory of another              *)
(* architecture, returns only a directory named after its own, and         *)
(* returns without acquisition only when that directory of its own was     *)
(* there at its start.                                                     *)
(***************************************************************************)
C23_VersionNameInjective ==
    [][LET name(a) == "android-" \o a \o "-lvl-27-v1.11.1"
           remote_root == join(OUT_DIR, ORT_PREBUILT_EXTRACT_DIR \o "-download")
           others == ArchNames \ {targetArch'}
       IN  /\ \A a \in ArchNames : version_name("Android", a) = name(a)
           /\ \A a, b \in ArchNames :
                a # b => version_name("Android", a) # version_name("Android", b)
           /\ InAndroidPath' =>
                \A p \in Written(fs, fs') : \A b \in others :
                    /\ ~Within(join(remote_root, name(b)), p)
                    /\ ~Within(join(release_dir, name(b)), p)
           /\ (InAndroidPath' /\ pc' = "done") =>
                /\ result' \in {join(remote_root, name(targetArch')),
                                join(release_dir, name(targetArch'))}
                /\ (\A i \in 1..Len(log') : log'[i] \notin AcquisitionEvents) =>
                     exists(atStart', result')
      ]_vars

C23_Witness ==
    /\ InAndroidPath
    /\ builds > 1
    /\ pc = "done"
    /\ InLog("spawn_build")
    /\ result = version_dir
    /\ ~exists(atStart, version_dir)
    /\ \E b \in ArchNames \ {targetArch} :
         exists(atStart, join(release_dir, version_name("Android", b)))

(***************************************************************************)
(* C24.  The cross-build command is given the ABI name of the target       *)
(* architecture (x86 -> x86, x86_64 -> x86_64, arm -> armeabi-v7a,         *)
(* aarch64 -> arm64-v8a), and no two architectures share an ABI name.      *)
(* Every command that is spawned carries --android_api 27, --parallel 0,   *)
(* --skip_tests, --build_shared_lib and --config Release, whether          *)
(* ANDROID_NNAPI is set or not; --use_nnapi is the only argument that      *)
(* depends on it.                                                          *)
(***************************************************************************)
C24_BuildCommand ==
    LET abi == ("x86" :> "x86") @@ ("x86_64" :> "x86_64")
               @@ ("arm" :> "armeabi-v7a") @@ ("aarch64" :> "arm64-v8a")
        head == << "build.sh", "--android", "--android_sdk_path", env.sdk,
                   "--android_ndk_path", env.ndk, "--android_abi", abi[targetArch],
                   "--android_api", "27" >>
        tail == << "--parallel", "0", "--skip_tests", "--build_shared_lib",
                   "--config", "Release" >>
    IN  /\ \A a \in ArchNames : Arch_as_android_arch(a) = abi[a]
        /\ \A a, b \in ArchNames :
             a # b => Arch_as_android_arch(a) # Arch_as_android_arch(b)
        /\ cmd # << >> => InLog("spawn_build")
        /\ InLog("spawn_build") =>
             /\ InAndroidPath
             /\ env.sdk \notin {NotRead, Unset}
             /\ env.ndk \notin {NotRead, Unset}
             /\ cmd \in {head \o tail, head \o << "--use_nnapi" >> \o tail}
             /\ env.nnapi = Unset => cmd = head \o tail
             /\ env.nnapi # Unset => cmd = head \o << "--use_nnapi" >> \o tail

C24_Witness ==
    /\ InLog("spawn_build")
    /\ pc = "mimic"
    /\ targetArch = "aarch64"
    /\ env.nnapi = Unset
    /\ cmd[8] = "arm64-v8a"
    /\ cmd[10] = "27"
    /\ Len(cmd) = 16

(***************************************************************************)
(* C25.  On the Download path the archive has extension zip exactly for a  *)
(* Windows target and tgz exactly for a Linux or MacOs target, and no      *)
(* other extension.  The zip extractor runs only on a zip archive and the  *)
(* tgz extractor only on a tgz archive, and the invocation never fails     *)
(* with the unrecognized-extension panic of extract_archive.               *)
(***************************************************************************)
C25_ExtensionRecognized ==
    InDownloadPath =>
        LET ext == extension(prebuilt.archive)
        IN  /\ ext \in {"zip", "tgz"}
            /\ ext = "zip" <=> triplet.os = "Windows"
            /\ ext = "tgz" <=> triplet.os \in {"Linux", "MacOs"}
            /\ ext = Os_archive_extension(triplet.os)
            /\ pc = "extract_zip" => ext = "zip"
            /\ pc = "extract_tgz" => ext = "tgz"
            /\ (InLog("extract") /\ ext = "zip") => pc \in {"extract_zip", "done", "aborted"}
            /\ (InLog("extract") /\ ext = "tgz") => pc \in {"extract_tgz", "done", "aborted"}
            /\ panic # "not implemented"

C25_Witness ==
    /\ InDownloadPath
    /\ pc = "extract_tgz"
    /\ triplet.os = "Linux"
    /\ InLog("extract")
    /\ extension(prebuilt.archive) = "tgz"

====
